---- MODULE Spec2Model ----
(***************************************************************************)
(* The per-route-backend dispatch stack of the outbound proxy              *)
(* (linkerd/app/outbound/src/http/logical/policy/route/backend.rs).        *)
(*                                                                         *)
(* A MatchedBackend target is turned into a service by the stack built in  *)
(* MatchedBackend::layer.  Every `push` wraps what was pushed before it,   *)
(* so the layer pushed last is the outermost one: it sees a request first  *)
(* and its response last.  The layers themselves (filters, timeout,        *)
(* request counter, error mapping) live in other modules of the proxy;     *)
(* here they behave as the design document describes them.                 *)
(*                                                                         *)
(* The module also covers max_fds of linkerd/system/src/linux.rs, which    *)
(* reads the open-files limit of the running process from /proc.           *)
(***************************************************************************)
EXTENDS Integers, Sequences, FiniteSets, Bags, TLC

\* ---------------------------------------------------------------- bounds
MaxPipelines == 2
MaxRequests == 2
\* The largest open-files limit a process is given.
MaxLimit == 3

\* ---------------------------------------------------------------- values
\* Option<T>: None is the empty sequence, Some(v) the one-element sequence.
None == <<>>
Some(v) == <<v>>

\* Errors are cause chains, outermost frame first.
Frame(kind, backend, msg) == [kind |-> kind, backend |-> backend, msg |-> msg]

\* struct BackendError { backend, #[source] source }
BackendError(backend, source) == <<Frame("BackendError", backend, "")>> \o source

\* #[error("backend {}: {source}", backend.0)]
RECURSIVE Display(_)
Display(err) ==
    IF err = <<>> THEN ""
    ELSE IF Head(err).kind = "BackendError"
         THEN "backend " \o Head(err).backend \o ": " \o Display(Tail(err))
         ELSE Head(err).msg

\* #[source]: the cause of an error is the rest of its chain.
Source(err) == Tail(err)

ResponseTimeoutError == <<Frame("ResponseTimeoutError", "", "response timed out")>>

\* ------------------------------------------------------------- the keys
HttpFilter(op, arg) == [op |-> op, arg |-> arg]

\* struct Backend<T, F> inside Matched<M, Backend<T, F>>; proto says which
\* of the aliases Http<T> / Grpc<T> the target is an instance of.
MatchedBackend(proto, m, route, parent, backend, filters, timeout) ==
    [proto |-> proto,
     match |-> m,
     params |-> [route_ref |-> route,
                 concrete |-> [parent_ref |-> parent, backend_ref |-> backend],
                 filters |-> filters,
                 request_timeout |-> timeout]]

RewriteFilters ==
    << HttpFilter("RequestHeaders", "x-test"),
       HttpFilter("Redirect", "m2"),
       HttpFilter("RequestHeaders", "x-late") >>

Keys ==
    { MatchedBackend("http", "m1", "r1", "p1", "b1", <<>>, None),
      MatchedBackend("http", "m1", "r1", "p1", "b1", RewriteFilters, Some("10ms")),
      MatchedBackend("http", "m2", "r1", "p1", "b1", RewriteFilters, Some("10ms")),
      MatchedBackend("grpc", "m1", "r1", "p1", "b2",
                     <<HttpFilter("RequestHeaders", "x-test")>>, Some("10ms")) }

\* Requests are the header names they carry, in order.
Requests == { <<"x-caller">> }

Ok(resp) == [ok |-> TRUE, resp |-> resp, err |-> <<>>]
Err(e) == [ok |-> FALSE, resp |-> <<>>, err |-> e]

\* What the inner (concrete) service may answer to the request it received:
\* a response echoing the headers, an error, or an error that already
\* carries a BackendError frame (the inner stack is itself such a pipeline).
DownstreamResults(sent) ==
    { Ok(<<"200">> \o sent),
      Err(<<Frame("Downstream", "", "connection refused")>>),
      Err(BackendError("b1", <<Frame("Downstream", "", "connection refused")>>)) }

\* ------------------------------------------------ the metrics registry
\* RouteBackendMetrics: one counter per (family, label triple), created on
\* first use and found again afterwards.
HasCounter(reg, family, labels) ==
    \E i \in 1..Len(reg) : reg[i].family = family /\ reg[i].labels = labels

CounterIndex(reg, family, labels) ==
    CHOOSE i \in 1..Len(reg) : reg[i].family = family /\ reg[i].labels = labels

requests_total(reg, family, labels) ==
    IF HasCounter(reg, family, labels)
    THEN [reg |-> reg, handle |-> CounterIndex(reg, family, labels)]
    ELSE [reg |-> Append(reg, [family |-> family, labels |-> labels, value |-> 0]),
          handle |-> Len(reg) + 1]

http_requests_total(reg, parent, route, backend) ==
    requests_total(reg, "http_requests_total", <<parent, route, backend>>)

grpc_requests_total(reg, parent, route, backend) ==
    requests_total(reg, "grpc_requests_total", <<parent, route, backend>>)

\* Counter::inc
inc(reg, h) == [reg EXCEPT ![h].value = @ + 1]

\* ------------------------------------------------- backend.rs, the impls
\* The labels taken from the wrong references.
extract_param_swapped(reg, t) ==
    IF t.proto = "http"
    THEN http_requests_total(reg, t.params.concrete.backend_ref,
                             t.params.route_ref, t.params.concrete.parent_ref)
    ELSE grpc_requests_total(reg, t.params.concrete.backend_ref,
                             t.params.route_ref, t.params.concrete.parent_ref)

\* The match summary taken into the labels in place of the route.
extract_param_by_match(reg, t) ==
    IF t.proto = "http"
    THEN http_requests_total(reg, t.params.concrete.parent_ref,
                             t.match, t.params.concrete.backend_ref)
    ELSE grpc_requests_total(reg, t.params.concrete.parent_ref,
                             t.match, t.params.concrete.backend_ref)

\* The HTTP family asked for whatever the protocol of the key.
extract_param_all_http(reg, t) ==
    http_requests_total(reg, t.params.concrete.parent_ref,
                        t.params.route_ref, t.params.concrete.backend_ref)

\* impl ExtractParam<RequestCount, Http<T>> / <RequestCount, Grpc<T>>
extract_param(reg, t) ==
    IF t.proto = "http"
    THEN http_requests_total(reg, t.params.concrete.parent_ref,
                             t.params.route_ref, t.params.concrete.backend_ref)
    ELSE grpc_requests_total(reg, t.params.concrete.parent_ref,
                             t.params.route_ref, t.params.concrete.backend_ref)

\* A response timeout whatever the target says / none whatever it says.
param_always(t) == Some("10ms")

param_never(t) == None

\* impl Param<http::ResponseTimeout> for MatchedBackend
param(t) == t.params.request_timeout

\* filters::apply_http / filters::apply_grpc: the filters in list order, the
\* first one that fails ends the application.  acc.applied lists the
\* filters that ran, acc.by the function that ran them.
ApplyFilter(fn, m, f, req) ==
    CASE f.op = "RequestHeaders" -> Ok(Append(req, f.arg))
      [] f.op = "Redirect" ->
            IF m = f.arg
            THEN Err(<<Frame(fn \o ".Redirect", "", "redirect to " \o f.arg)>>)
            ELSE Ok(req)
      [] OTHER -> Err(<<Frame(fn \o ".InternalError", "", f.arg)>>)

RECURSIVE ApplyFrom(_, _, _, _, _)
ApplyFrom(fn, m, filters, i, acc) ==
    IF i > Len(filters) THEN acc
    ELSE LET r == ApplyFilter(fn, m, filters[i], acc.req)
             ran == [acc EXCEPT !.applied = Append(@, i)]
         IN IF r.ok
            THEN ApplyFrom(fn, m, filters, i + 1, [ran EXCEPT !.req = r.resp])
            ELSE [ran EXCEPT !.err = r.err]

apply_http(m, filters, req) ==
    ApplyFrom("http", m, filters, 1,
              [req |-> req, err |-> <<>>, applied |-> <<>>, by |-> "apply_http"])

apply_grpc(m, filters, req) ==
    ApplyFrom("grpc", m, filters, 1,
              [req |-> req, err |-> <<>>, applied |-> <<>>, by |-> "apply_grpc"])

\* The result of the application thrown away.
apply_ignored(t, req) ==
    IF t.proto = "http"
    THEN [apply_http(t.match, t.params.filters, req) EXCEPT !.err = <<>>]
    ELSE [apply_grpc(t.match, t.params.filters, req) EXCEPT !.err = <<>>]

\* Each protocol given the filter function of the other.
apply_swapped(t, req) ==
    IF t.proto = "http"
    THEN apply_grpc(t.match, t.params.filters, req)
    ELSE apply_http(t.match, t.params.filters, req)

\* impl filters::Apply for Http<T> / Grpc<T>
apply(t, req) ==
    IF t.proto = "http"
    THEN apply_http(t.match, t.params.filters, req)
    ELSE apply_grpc(t.match, t.params.filters, req)

\* The cause lost / an error that is already a BackendError left alone.
MapErrDropSource(t, source) == BackendError(t.params.concrete.backend_ref, <<>>)

MapErrIdempotent(t, source) ==
    IF source # <<>> /\ Head(source).kind = "BackendError" THEN source
    ELSE BackendError(t.params.concrete.backend_ref, source)

\* The closure given to NewMapErr::layer_with.
MapErr(t, source) == BackendError(t.params.concrete.backend_ref, source)

\* push_map_target(|Self { params: Backend { concrete, .. }, .. }| concrete)
map_target(t) == t.params.concrete

\* ------------------------------------------------------------ the stack
\* The layers pushed in another order: the counter innermost; the filters
\* outside the counter; the error wrapper innermost.
StackCountInner ==
    << "push_map_target", "NewCountRequests", "NewApplyFilters",
       "NewTimeout", "NewMapErr", "ArcNewService" >>

StackFiltersOuter ==
    << "push_map_target", "NewTimeout", "NewCountRequests",
       "NewApplyFilters", "NewMapErr", "ArcNewService" >>

StackMapErrInner ==
    << "push_map_target", "NewMapErr", "NewApplyFilters", "NewTimeout",
       "NewCountRequests", "ArcNewService" >>

\* svc::stack(inner).push_map_target(..).push(..)...: in push order, so
\* Stack[1] is the innermost layer and Stack[Len(Stack)] the outermost.
Stack ==
    << "push_map_target", "NewApplyFilters", "NewTimeout",
       "NewCountRequests", "NewMapErr", "ArcNewService" >>

LayerIndex(name) == CHOOSE i \in 1..Len(Stack) : Stack[i] = name

\* A call in flight: what the layers passed so far have done to it.
NewCall(req) ==
    [req |-> req, steps |-> <<>>, counted |-> <<>>, timer |-> None,
     err |-> <<>>, origin |-> 0, called |-> FALSE,
     applied |-> <<>>, by |-> ""]

\* CountRequests::call: increment, then call the inner service.
CountRequestsCall(pl, st) ==
    [st EXCEPT !.steps = Append(@, "count"), !.counted = Append(@, pl.requests)]

\* Timeout::call: the inner call raced against the target's timeout.
TimeoutCall(pl, st) == [st EXCEPT !.timer = pl.timeout]

\* ApplyFilters::call: a failed application is the response.
ApplyFiltersCall(pl, i, st) ==
    LET r == apply(pl.target, st.req)
        ran == [st EXCEPT !.steps = Append(@, "filter"),
                          !.applied = r.applied, !.by = r.by]
    IN IF r.err # <<>>
       THEN [ran EXCEPT !.err = r.err, !.origin = i]
       ELSE [ran EXCEPT !.req = r.req]

\* Service::call of the stack from layer i inwards; layer 0 is the inner
\* (concrete) service.
RECURSIVE Descend(_, _, _)
Descend(i, pl, st) ==
    IF st.err # <<>> THEN st
    ELSE IF i = 0
    THEN [st EXCEPT !.steps = Append(@, "call"), !.called = TRUE]
    ELSE CASE Stack[i] = "NewCountRequests" ->
                 Descend(i - 1, pl, CountRequestsCall(pl, st))
           [] Stack[i] = "NewTimeout" ->
                 Descend(i - 1, pl, TimeoutCall(pl, st))
           [] Stack[i] = "NewApplyFilters" ->
                 Descend(i - 1, pl, ApplyFiltersCall(pl, i, st))
           [] OTHER -> Descend(i - 1, pl, st)

\* An error travelling outwards from layer i to the caller.
RECURSIVE Ascend(_, _, _)
Ascend(i, pl, e) ==
    IF i > Len(Stack) THEN e
    ELSE IF Stack[i] = "NewMapErr"
    THEN Ascend(i + 1, pl,
                [err |-> MapErr(pl.target, e.err), steps |-> Append(e.steps, "wrap")])
    ELSE Ascend(i + 1, pl, e)

RECURSIVE IncAll(_, _)
IncAll(reg, hs) == IF hs = <<>> THEN reg ELSE IncAll(inc(reg, Head(hs)), Tail(hs))

\* pipelines: the services built so far, as a bag (two services built alike
\* are told apart by nothing); registry: the counters in creation order;
\* reqs: the requests in call order, each with the service it was called on.
\* ------------------------------------------------------------- linux.rs
\* procfs LimitValue: Unlimited, or Value(v).
Unlimited == <<"Unlimited">>
Value(v) == <<"Value", v>>

LimitValues == { Unlimited } \cup { Value(v) : v \in 0..MaxLimit }

\* procfs Limit { soft_limit, hard_limit }
Limit(soft, hard) == [soft_limit |-> soft, hard_limit |-> hard]

\* What /proc holds for the running process: whether Process::myself()
\* succeeds, whether its limits() can be read, and the "Max open files"
\* line of the limits.  Every value the procfs types can carry is in.
Processes ==
    [ myself : BOOLEAN, limits : BOOLEAN,
      max_open_files : { Limit(s, h) : s, h \in LimitValues } ]

\* The failures to read handed on to the caller, as `?` would.
max_fds_propagated(p) ==
    IF p.myself
    THEN IF p.limits
         THEN LET limit == p.max_open_files
              IN IF limit.soft_limit = Unlimited
                 THEN IF limit.hard_limit = Unlimited THEN Ok(None)
                      ELSE Ok(Some(limit.hard_limit[2]))
                 ELSE Ok(Some(limit.soft_limit[2]))
         ELSE Err(<<Frame("ProcError", "", "limits")>>)
    ELSE Err(<<Frame("ProcError", "", "myself")>>)

\* pub fn max_fds() -> io::Result<Option<u64>>
max_fds(p) ==
    IF p.myself
    THEN IF p.limits
         THEN LET limit == p.max_open_files
              IN IF limit.soft_limit = Unlimited
                 THEN IF limit.hard_limit = Unlimited THEN Ok(None)
                      ELSE Ok(Some(limit.hard_limit[2]))
                 ELSE Ok(Some(limit.soft_limit[2]))
         ELSE Ok(None)
    ELSE Ok(None)

\* ------------------------------------------------------------ the state
\* pipelines, registry and reqs are the dispatch stack's: the pipelines
\* built, the counters of the metrics registry, the requests started.
\* proc is what /proc holds for the process, fds what max_fds returned
\* (None until it is called).
VARIABLES pipelines, registry, reqs, proc, fds

vars == <<pipelines, registry, reqs, proc, fds>>

Init ==
    /\ pipelines = EmptyBag
    /\ registry = <<>>
    /\ reqs = <<>>
    /\ proc = [myself |-> TRUE, limits |-> TRUE,
               max_open_files |-> Limit(Value(MaxLimit), Value(MaxLimit))]
    /\ fds = None

\* Every pipeline given a metrics registry of its own.
NewServiceFreshMetrics(t) ==
    /\ BagCardinality(pipelines) < MaxPipelines
    /\ LET c == extract_param(<<>>, t)
       IN /\ registry' = registry \o c.reg
          /\ pipelines' = pipelines (+) SetToBag({
                 [target |-> t, concrete |-> map_target(t),
                  timeout |-> param(t), requests |-> Len(registry) + 1]})
    /\ UNCHANGED <<reqs, proc, fds>>

\* A pipeline built again for a key it was already built for comes without
\* the key's response timeout.
NewServiceRebuiltUntimed(t) ==
    /\ BagCardinality(pipelines) < MaxPipelines
    /\ LET c == extract_param(registry, t)
           again == \E p \in BagToSet(pipelines) : p.target = t
       IN /\ registry' = c.reg
          /\ pipelines' = pipelines (+) SetToBag({
                 [target |-> t, concrete |-> map_target(t),
                  timeout |-> IF again THEN None ELSE param(t),
                  requests |-> c.handle]})
    /\ UNCHANGED <<reqs, proc, fds>>

\* NewService::new_service of the stack for target t: every layer builds
\* its service from the target; nothing is looked up or cached here.
NewService(t) ==
    /\ BagCardinality(pipelines) < MaxPipelines
    /\ LET c == extract_param(registry, t)
       IN /\ registry' = c.reg
          /\ pipelines' = pipelines (+) SetToBag({
                 [target |-> t, concrete |-> map_target(t),
                  timeout |-> param(t), requests |-> c.handle]})
    /\ UNCHANGED <<reqs, proc, fds>>

\* Service::call on the pipeline pl: the synchronous part, down to the
\* inner service's call (or to the layer that fails the request).
Call(pl, req) ==
    /\ Len(reqs) < MaxRequests
    /\ LET st == Descend(Len(Stack), pl, NewCall(req))
       IN /\ registry' = IncAll(registry, st.counted)
          /\ reqs' = Append(reqs,
                 [pipeline |-> pl, orig |-> req,
                  sent |-> IF st.called THEN Some(st.req) ELSE None,
                  ds |-> IF st.called THEN "pending" ELSE "none",
                  dsres |-> None,
                  timer |-> st.timer,
                  err |-> st.err, origin |-> st.origin,
                  steps |-> st.steps, applied |-> st.applied, by |-> st.by,
                  outcome |-> None, delivered |-> 0])
    /\ UNCHANGED <<pipelines, proc, fds>>

\* The inner call finishes after the pipeline stopped awaiting it.
\* Its result goes nowhere.
LateComplete(r) ==
    /\ reqs[r].ds = "dropped"
    /\ reqs' = [reqs EXCEPT ![r].ds = "late"]
    /\ UNCHANGED <<pipelines, registry, proc, fds>>

InFlight(r) == reqs[r].outcome = None /\ reqs[r].ds \in {"pending", "overdue"}

\* Time passes: the call of r has now been awaited for longer than any
\* configured timeout.
Elapse(r) ==
    /\ reqs[r].ds = "pending"
    /\ reqs' = [reqs EXCEPT ![r].ds = "overdue"]
    /\ UNCHANGED <<pipelines, registry, proc, fds>>

Deliver(r, res, steps) ==
    [reqs[r] EXCEPT !.outcome = Some(res), !.delivered = @ + 1,
                    !.steps = steps \o <<"return">>]

\* The response future of a call that a layer failed is ready at once: it
\* resolves with that layer's error, seen through the layers outside it.
Respond(r) ==
    /\ reqs[r].outcome = None
    /\ reqs[r].err # <<>>
    /\ LET q == reqs[r]
           up == Ascend(q.origin + 1, q.pipeline, [err |-> q.err, steps |-> q.steps])
       IN reqs' = [reqs EXCEPT ![r] = Deliver(r, Err(up.err), up.steps)]
    /\ UNCHANGED <<pipelines, registry, proc, fds>>

\* Every result of the inner service, a response too, taken through the
\* error path of the layers.
DownstreamCompleteAllMapped(r) ==
    /\ InFlight(r)
    /\ \E res \in DownstreamResults(reqs[r].sent[1]) :
          LET q == [reqs[r] EXCEPT !.ds = "done", !.dsres = Some(res)]
              up == Ascend(1, q.pipeline, [err |-> res.err, steps |-> q.steps])
          IN reqs' = [reqs EXCEPT ![r] =
                        [Deliver(r, Err(up.err), up.steps)
                         EXCEPT !.ds = "done", !.dsres = Some(res)]]
    /\ UNCHANGED <<pipelines, registry, proc, fds>>

\* An error of the inner service answered by calling it once more.
DownstreamCompleteRetried(r) ==
    /\ InFlight(r)
    /\ \E res \in DownstreamResults(reqs[r].sent[1]) :
          LET q == [reqs[r] EXCEPT !.ds = "done", !.dsres = Some(res)]
              up == Ascend(1, q.pipeline, [err |-> res.err, steps |-> q.steps])
              calls == { i \in 1..Len(q.steps) : q.steps[i] = "call" }
              again == ~res.ok /\ Cardinality(calls) < 2
          IN reqs' = [reqs EXCEPT ![r] =
                        IF again
                        THEN [reqs[r] EXCEPT !.steps = Append(@, "call")]
                        ELSE [(IF res.ok THEN Deliver(r, res, q.steps)
                               ELSE Deliver(r, Err(up.err), up.steps))
                              EXCEPT !.ds = "done", !.dsres = Some(res)]]
    /\ UNCHANGED <<pipelines, registry, proc, fds>>

\* A poll of the response future finds the inner service's future ready
\* (the inner future is polled before the timer): its response goes to the
\* caller as it is, its error through the layers.
DownstreamComplete(r) ==
    /\ InFlight(r)
    /\ \E res \in DownstreamResults(reqs[r].sent[1]) :
          LET q == [reqs[r] EXCEPT !.ds = "done", !.dsres = Some(res)]
              up == Ascend(1, q.pipeline, [err |-> res.err, steps |-> q.steps])
          IN reqs' = [reqs EXCEPT ![r] =
                        [(IF res.ok THEN Deliver(r, res, q.steps)
                          ELSE Deliver(r, Err(up.err), up.steps))
                         EXCEPT !.ds = "done", !.dsres = Some(res)]]
    /\ UNCHANGED <<pipelines, registry, proc, fds>>

\* The timer of the race fires first: the inner future is dropped.
TimeoutFire(r) ==
    /\ reqs[r].ds = "overdue"
    /\ reqs[r].timer # None
    /\ LET q == reqs[r]
           pl == q.pipeline
           up == Ascend(LayerIndex("NewTimeout") + 1, pl,
                        [err |-> ResponseTimeoutError, steps |-> q.steps])
       IN reqs' = [reqs EXCEPT ![r] =
                     [Deliver(r, Err(up.err), up.steps) EXCEPT !.ds = "dropped"]]
    /\ UNCHANGED <<pipelines, registry, proc, fds>>

Next ==
    \/ \E t \in Keys : NewService(t)
    \/ \E pl \in BagToSet(pipelines), req \in Requests : Call(pl, req)
    \/ \E r \in 1..Len(reqs) : DownstreamComplete(r)
    \/ \E r \in 1..Len(reqs) : LateComplete(r)
    \/ \E r \in 1..Len(reqs) : Elapse(r)
    \/ \E r \in 1..Len(reqs) : Respond(r)
    \/ \E r \in 1..Len(reqs) : TimeoutFire(r)

Spec == Init /\ [][Next]_vars

\* The runtime keeps time moving and wakes the response future when its
\* timer expires; nothing obliges the inner service to ever answer.
Fairness ==
    \A r \in 1..MaxRequests :
        WF_vars(r <= Len(reqs) /\ (Elapse(r) \/ TimeoutFire(r)))

FairSpec == Spec /\ Fairness

\* ---------------------------------------------- the system, on its own
\* The process starts with any limits, readable or not, and nothing of
\* the dispatch stack is running.
SystemInit ==
    /\ pipelines = EmptyBag
    /\ registry = <<>>
    /\ reqs = <<>>
    /\ proc \in Processes
    /\ fds = None

\* A call of max_fds().
MaxFds ==
    /\ fds = None
    /\ fds' = Some(max_fds(proc))
    /\ UNCHANGED <<pipelines, registry, reqs, proc>>

SystemNext == MaxFds

SystemSpec == SystemInit /\ [][SystemNext]_vars

\* ----------------------------------------------------- what is checked
Rs == 1..Len(reqs)

TargetOf(q) == q.pipeline.target

BackendOf(q) == TargetOf(q).params.concrete.backend_ref

LabelTriple(t) ==
    <<t.params.concrete.parent_ref, t.params.route_ref, t.params.concrete.backend_ref>>

Family(t) == IF t.proto = "http" THEN "http_requests_total" ELSE "grpc_requests_total"

Ended(q) == q.outcome # None

Failed(q) == Ended(q) /\ ~q.outcome[1].ok

FilterFailed(q) == q.err # <<>>

TimedOut(q) == Ended(q) /\ q.ds \in {"dropped", "late"}

Pos(steps, name) == { i \in 1..Len(steps) : steps[i] = name }

Times(steps, name) == Cardinality(Pos(steps, name))

Precedes(steps, a, b) == \A i \in Pos(steps, a), j \in Pos(steps, b) : i < j

\* The steps of a request follow the given order, none of them twice.
InOrder(steps, order) ==
    \A i, j \in 1..Len(steps) :
        i < j => \E a, b \in 1..Len(order) :
                    a < b /\ order[a] = steps[i] /\ order[b] = steps[j]

\* A step of the system that starts a request, and the request it starts.
Starts == Len(reqs') = Len(reqs) + 1

Started == reqs'[Len(reqs')]

\* The error a failed request failed with, before any wrapping.
Original(q) ==
    IF FilterFailed(q) THEN q.err
    ELSE IF TimedOut(q) THEN ResponseTimeoutError
    ELSE q.dsres[1].err

Frames(err, backend) ==
    Cardinality({ i \in 1..Len(err) :
                    err[i].kind = "BackendError" /\ err[i].backend = backend })

HasTimeout(err) == \E i \in 1..Len(err) : err[i].kind = "ResponseTimeoutError"

\* C1 as stated: a request whose filters fail leaves the request counters as
\* they were (the counter is incremented only after successful filtering).
C1_FilterFailureNotCounted ==
    [][(Starts /\ FilterFailed(Started)) => registry' = registry]_vars

\* C1 as amended: a request whose filters fail has incremented the counter
\* of its key's label triple exactly once, before the filters were applied,
\* and no other counter.
C1_FilterFailureCounted ==
    [][(Starts /\ FilterFailed(Started)) =>
          LET h == Started.pipeline.requests
          IN /\ registry' = inc(registry, h)
             /\ registry[h].labels = LabelTriple(TargetOf(Started))
             /\ Times(Started.steps, "count") = 1
             /\ Precedes(Started.steps, "count", "filter")]_vars

C1_Witness ==
    \E r \in Rs :
        /\ FilterFailed(reqs[r]) /\ Ended(reqs[r])
        /\ registry[reqs[r].pipeline.requests].value >= 1

\* C2 as stated: within a request the steps are filter application, then
\* the downstream call, then the counter increment, then the error wrap.
C2_OrderFilterCallCountWrap ==
    \A r \in Rs : InOrder(reqs[r].steps, <<"filter", "call", "count", "wrap", "return">>)

\* C2 as amended: within a request the steps are the counter increment,
\* then filter application, then the downstream call raced against the
\* timeout, then (only on error) the backend error wrap; no request performs
\* a later step before an earlier one, and none twice.
C2_OrderCountFilterCallWrap ==
    \A r \in Rs :
        /\ InOrder(reqs[r].steps, <<"count", "filter", "call", "wrap", "return">>)
        /\ (Times(reqs[r].steps, "wrap") = 1) <=> Failed(reqs[r])

C2_Witness ==
    \E r \in Rs :
        /\ Failed(reqs[r])
        /\ reqs[r].steps = <<"count", "filter", "call", "wrap", "return">>

\* C3: every request attempt increments the counter of its key's label
\* triple exactly once, and does so before the downstream call is made, so
\* before any outcome of the request is known.
C3_CountedOncePerAttempt ==
    \A r \in Rs :
        LET q == reqs[r]
            c == registry[q.pipeline.requests]
        IN /\ Times(q.steps, "count") = 1
           /\ Precedes(q.steps, "count", "call")
           /\ Precedes(q.steps, "count", "return")
           /\ c.labels = LabelTriple(TargetOf(q))
           /\ c.family = Family(TargetOf(q))
           /\ c.value = Cardinality({ x \in Rs :
                 reqs[x].pipeline.requests = q.pipeline.requests })

C3_Witness ==
    \E r \in Rs :
        /\ Ended(reqs[r]) /\ reqs[r].outcome[1].ok
        /\ registry[reqs[r].pipeline.requests].value = 2

\* C4: every error returned to the caller (from the downstream, from the
\* timeout or from the filters) is a BackendError with the backend_ref of
\* the key's concrete target, the original error as its source, and the
\* message "backend <backend_ref>: <original message>".
C4_ErrorsAreBackendErrors ==
    \A r \in Rs :
        Failed(reqs[r]) =>
            LET e == reqs[r].outcome[1].err
                b == BackendOf(reqs[r])
            IN /\ Head(e).kind = "BackendError"
               /\ Head(e).backend = b
               /\ Source(e) = Original(reqs[r])
               /\ Display(e) = "backend " \o b \o ": " \o Display(Original(reqs[r]))

C4_Witness ==
    \E r, x \in Rs :
        /\ Failed(reqs[r]) /\ TimedOut(reqs[r])
        /\ Display(reqs[r].outcome[1].err) = "backend b1: response timed out"
        /\ Failed(reqs[x]) /\ FilterFailed(reqs[x])

\* C5 as stated: the cause chain of every returned error holds exactly one
\* BackendError frame for this backend, also when the inner service's error
\* already carries one.
C5_ExactlyOneFrame ==
    \A r \in Rs :
        Failed(reqs[r]) => Frames(reqs[r].outcome[1].err, BackendOf(reqs[r])) = 1

\* C5 as amended: the pipeline adds exactly one BackendError frame for this
\* backend, as the outermost frame, to every error it returns: one frame
\* when the original error carries none, two when the inner service's error
\* already carries one (nested pipelines wrap twice).
C5_OneFrameAdded ==
    \A r \in Rs :
        Failed(reqs[r]) =>
            LET e == reqs[r].outcome[1].err
                b == BackendOf(reqs[r])
            IN /\ Frames(e, b) = Frames(Original(reqs[r]), b) + 1
               /\ Len(e) = Len(Original(reqs[r])) + 1
               /\ Head(e).kind = "BackendError" /\ Head(e).backend = b

C5_Witness ==
    \E r \in Rs :
        /\ Failed(reqs[r])
        /\ Frames(Original(reqs[r]), BackendOf(reqs[r])) = 1
        /\ Frames(reqs[r].outcome[1].err, BackendOf(reqs[r])) = 2

\* C6: a request on a key whose request_timeout is None never ends with a
\* response-timeout error, however long the downstream call is awaited.
C6_NoTimeoutWithoutRequestTimeout ==
    \A r \in Rs :
        TargetOf(reqs[r]).params.request_timeout = None =>
            /\ reqs[r].timer = None
            /\ ~TimedOut(reqs[r])
            /\ Failed(reqs[r]) => ~HasTimeout(reqs[r].outcome[1].err)

C6_Witness ==
    \E r \in Rs :
        /\ TargetOf(reqs[r]).params.request_timeout = None
        /\ reqs[r].ds = "overdue"
        /\ ~Ended(reqs[r])

HasRequestTimeout(q) == TargetOf(q).params.request_timeout # None

WrappedTimeout(q) == Err(BackendError(BackendOf(q), ResponseTimeoutError))

\* C7: on a key with request_timeout = Some(d), a request whose filters
\* succeeded and whose downstream call never completes eventually ends with
\* the response-timeout error wrapped with this backend; every request
\* delivers at most one outcome, and the outcome delivered on a timeout is
\* never replaced, also when the downstream call completes afterwards.
C7_TimeoutWhenDownstreamHangs ==
    /\ \A r \in 1..MaxRequests :
          (r <= Len(reqs) /\ HasRequestTimeout(reqs[r]) /\ InFlight(r))
             ~> (r <= Len(reqs)
                   /\ \/ reqs[r].ds = "done"
                      \/ TimedOut(reqs[r]) /\ reqs[r].outcome[1] = WrappedTimeout(reqs[r]))
    /\ [](\A r \in Rs :
            /\ reqs[r].delivered = (IF Ended(reqs[r]) THEN 1 ELSE 0)
            /\ TimedOut(reqs[r]) =>
                  /\ HasRequestTimeout(reqs[r])
                  /\ reqs[r].outcome[1] = WrappedTimeout(reqs[r]))
    /\ [][\A r \in Rs :
            Ended(reqs[r]) => /\ reqs'[r].outcome = reqs[r].outcome
                              /\ reqs'[r].delivered = reqs[r].delivered]_vars

C7_Witness ==
    \E r \in Rs :
        /\ HasRequestTimeout(reqs[r])
        /\ reqs[r].ds = "late"
        /\ reqs[r].outcome[1] = WrappedTimeout(reqs[r])

\* C8: on a key with request_timeout = Some(d), when the downstream call
\* completes before the timer fires the caller receives the downstream's own
\* outcome (its response, or its error as the source of the BackendError)
\* and no response-timeout error; from then on the timer changes nothing,
\* neither for this request nor for another one.
C8_DownstreamWinsRace ==
    /\ [](\A r \in Rs :
            (HasRequestTimeout(reqs[r]) /\ reqs[r].ds = "done" /\ Ended(reqs[r])) =>
                LET res == reqs[r].dsres[1]
                    out == reqs[r].outcome[1]
                IN IF res.ok THEN out = res
                   ELSE /\ ~out.ok
                        /\ Source(out.err) = res.err
                        /\ HasTimeout(out.err) = HasTimeout(res.err))
    /\ [][\A r \in Rs :
            /\ reqs[r].ds = "done" => reqs'[r] = reqs[r]
            /\ (reqs[r].ds # "done" /\ reqs'[r].ds = "done") =>
                  /\ \A x \in Rs \ {r} : reqs'[x] = reqs[x]
                  /\ registry' = registry]_vars

C8_Witness ==
    \E r, x \in Rs :
        /\ HasRequestTimeout(reqs[r]) /\ reqs[r].ds = "done" /\ Ended(reqs[r])
        /\ reqs[r].outcome[1] = reqs[r].dsres[1]
        /\ reqs[r].outcome[1].ok
        /\ x # r /\ HasRequestTimeout(reqs[x]) /\ reqs[x].ds = "overdue"

\* Whether filter f fails on a request matched by m, and the first filter of
\* a list that does.
Fails(f, m) == ~(f.op = "RequestHeaders" \/ (f.op = "Redirect" /\ m # f.arg))

FirstFailing(t) ==
    LET bad == { i \in 1..Len(t.params.filters) : Fails(t.params.filters[i], t.match) }
    IN IF bad = {} THEN 0 ELSE CHOOSE i \in bad : \A j \in bad : i <= j

\* C9: when one of the key's filters fails on a request, the filters before
\* it and the failing one are the only ones applied, the downstream handler
\* is never invoked for the request, and the request fails with the filter's
\* error (as the source of the BackendError) without waiting for anything.
C9_FilterFailureAbortsRequest ==
    \A r \in Rs :
        LET q == reqs[r]
            k == FirstFailing(TargetOf(q))
        IN k > 0 =>
            /\ q.applied = [i \in 1..k |-> i]
            /\ q.ds = "none" /\ q.sent = None
            /\ Times(q.steps, "call") = 0
            /\ FilterFailed(q)
            /\ Ended(q) => /\ Failed(q)
                           /\ Source(q.outcome[1].err) = q.err
                           /\ Times(q.steps, "filter") = 1

C9_Witness ==
    \E r \in Rs :
        /\ FirstFailing(TargetOf(reqs[r])) = 2
        /\ Len(TargetOf(reqs[r]).params.filters) = 3
        /\ Failed(reqs[r])
        /\ Display(reqs[r].outcome[1].err) = "backend b1: redirect to m2"

Ps == BagToSet(pipelines)

\* C10 as stated: every distinct key has received at most one constructed
\* pipeline.
C10_OnePipelinePerKey ==
    \A t \in Keys :
        BagCardinality([p \in { x \in Ps : x.target = t } |-> pipelines[p]]) <= 1

\* C10 as amended: a key may have received more than one constructed
\* pipeline (nothing is cached here), but the pipelines of equal keys are
\* equal and hold the same counter, and the counter of a (family, label
\* triple) has been created exactly once.
C10_OneCounterPerKey ==
    /\ \A p, q \in Ps : p.target = q.target => p = q
    /\ \A p \in Ps :
          /\ p.requests \in 1..Len(registry)
          /\ registry[p.requests].family = Family(p.target)
          /\ registry[p.requests].labels = LabelTriple(p.target)
    /\ \A i, j \in 1..Len(registry) :
          (registry[i].family = registry[j].family
             /\ registry[i].labels = registry[j].labels) => i = j

C10_Witness ==
    \E p \in Ps :
        /\ pipelines[p] = 2
        /\ Len(registry) = 1

\* The requests started so far on the pipelines of one counter family and
\* label triple.
AttemptsOn(family, labels) ==
    { r \in Rs : Family(TargetOf(reqs[r])) = family
                   /\ LabelTriple(TargetOf(reqs[r])) = labels }

\* C11: however many pipelines were constructed for equal keys and however
\* their requests interleave, every attempt increments the one counter of
\* the shared label triple and none is lost: the counter reads exactly the
\* number of attempts started for that triple, and it never decreases.
C11_DuplicatePipelinesShareCounter ==
    /\ [](\A i \in 1..Len(registry) :
            registry[i].value =
                Cardinality(AttemptsOn(registry[i].family, registry[i].labels)))
    /\ [][/\ Len(registry') >= Len(registry)
          /\ \A i \in 1..Len(registry) :
                registry'[i].value >= registry[i].value]_vars

C11_Witness ==
    \E p \in Ps :
        /\ pipelines[p] = 2
        /\ Len(reqs) = 2
        /\ \A r \in Rs : reqs[r].pipeline = p /\ InFlight(r)
        /\ registry[p.requests].value = 2

\* What the inner service did to a request: it never got it, it answered
\* with a result, or it was still silent when the pipeline stopped waiting.
DownstreamBehaviour(q) ==
    IF q.ds \in {"dropped", "late"} THEN <<"hung", None>> ELSE <<q.ds, q.dsres>>

DifferOnlyInMatch(s, t) ==
    s.match # t.match /\ s.proto = t.proto /\ s.params = t.params

\* C13: the label triple is a function of the parent, route and backend
\* references only: the counter of a pipeline carries exactly these three,
\* pipelines whose keys agree on them (and on the protocol) hold the same
\* counter, and requests on two keys that differ only in the match summary
\* have incremented that one counter.
C13_LabelsFromRefsOnly ==
    /\ \A p \in Ps :
          registry[p.requests].labels =
              << p.target.params.concrete.parent_ref, p.target.params.route_ref,
                 p.target.params.concrete.backend_ref >>
    /\ \A p, q \in Ps :
          (p.target.proto = q.target.proto
             /\ p.target.params.concrete = q.target.params.concrete
             /\ p.target.params.route_ref = q.target.params.route_ref)
          => p.requests = q.requests
    /\ \A r, x \in Rs :
          DifferOnlyInMatch(TargetOf(reqs[r]), TargetOf(reqs[x])) =>
              /\ reqs[r].pipeline.requests = reqs[x].pipeline.requests
              /\ registry[reqs[r].pipeline.requests].value >= Cardinality({r, x})

C13_Witness ==
    /\ Len(reqs) = 2
    /\ DifferOnlyInMatch(TargetOf(reqs[1]), TargetOf(reqs[2]))
    /\ Len(registry) = 1
    /\ registry[1].value = 2

OtherFamily(t) ==
    IF t.proto = "http" THEN "grpc_requests_total" ELSE "http_requests_total"

\* C14: the counter family is fixed by the protocol of the key: a request
\* on an Http pipeline changes only a counter of the HTTP family and leaves
\* every gRPC counter as it was, a request on a Grpc pipeline the other way
\* round; the counter a pipeline holds is of its protocol's family.
C14_FamilyByProtocol ==
    /\ [](\A p \in Ps : registry[p.requests].family = Family(p.target))
    /\ [][Starts =>
            /\ Len(registry') = Len(registry)
            /\ \E i \in 1..Len(registry) :
                  /\ registry[i].family = Family(TargetOf(Started))
                  /\ registry'[i].value = registry[i].value + 1
            /\ \A i \in 1..Len(registry) :
                  registry[i].family = OtherFamily(TargetOf(Started))
                     => registry'[i] = registry[i]]_vars

C14_Witness ==
    /\ \E r \in Rs : TargetOf(reqs[r]).proto = "http"
    /\ \E r \in Rs : TargetOf(reqs[r]).proto = "grpc"
    /\ \E i, j \in 1..Len(registry) :
          /\ registry[i].family = "http_requests_total" /\ registry[i].value = 1
          /\ registry[j].family = "grpc_requests_total" /\ registry[j].value = 1

\* The inner service answered the request with a response before any
\* timeout fired.
Answered(q) == q.ds = "done" /\ q.dsres[1].ok

\* A key without filters and without response timeout.
Bare(t) == t.params.filters = <<>> /\ t.params.request_timeout = None

\* C15: a response of the inner service that arrives before any timeout is
\* what the caller gets, unmodified and without passing the error wrapper;
\* on a key with no filters and no request timeout the inner service
\* receives the request as it came, no request ends before the inner
\* service answers, and every response is returned unchanged.
C15_ResponsePassesThrough ==
    \A r \in Rs :
        LET q == reqs[r]
        IN /\ Answered(q) =>
                /\ q.outcome = q.dsres
                /\ q.outcome[1].resp = <<"200">> \o q.sent[1]
                /\ Times(q.steps, "wrap") = 0
                /\ q.delivered = 1
           /\ Bare(TargetOf(q)) =>
                /\ q.sent = Some(q.orig) /\ q.timer = None
                /\ Ended(q) => q.ds = "done"
                /\ (Ended(q) /\ q.dsres[1].ok)
                      => q.outcome = Some(Ok(<<"200">> \o q.orig))

C15_Witness ==
    \E r, x \in Rs :
        /\ Bare(TargetOf(reqs[r])) /\ Answered(reqs[r])
        /\ reqs[r].outcome = Some(Ok(<<"200", "x-caller">>))
        /\ HasRequestTimeout(reqs[x]) /\ Answered(reqs[x])
        /\ reqs[x].outcome = Some(Ok(<<"200", "x-caller", "x-test", "x-late">>))

IsRequestHeaders(f) == f.op = "RequestHeaders"

\* The headers the filters of a key add to a request, in list order.
Added(t) ==
    LET adding == SelectSeq(t.params.filters, IsRequestHeaders)
    IN [i \in 1..Len(adding) |-> adding[i].arg]

FilterFunction(t) == IF t.proto = "http" THEN "apply_http" ELSE "apply_grpc"

\* C16: the request the inner service receives is the caller's request
\* after all filters of the key were applied, in list order, under the
\* key's match summary: it carries the caller's headers followed by the
\* headers the filters add, and the response echoes them; the filters of an
\* Http key are applied by the HTTP filter function and those of a Grpc key
\* by the gRPC one.
C16_DownstreamSeesFilteredRequest ==
    \A r \in Rs :
        LET q == reqs[r]
            t == TargetOf(q)
        IN /\ q.by = FilterFunction(t)
           /\ q.sent # None =>
                /\ FirstFailing(t) = 0
                /\ q.applied = [i \in 1..Len(t.params.filters) |-> i]
                /\ q.sent[1] = q.orig \o Added(t)
           /\ (q.sent = None /\ Times(q.steps, "filter") = 1) => FirstFailing(t) > 0
           /\ FilterFailed(q) =>
                Head(q.err).kind \in
                    { (IF t.proto = "http" THEN "http." ELSE "grpc.") \o k :
                         k \in {"Redirect", "InternalError"} }

C16_Witness ==
    \E r, x \in Rs :
        /\ TargetOf(reqs[r]).proto = "grpc" /\ reqs[r].by = "apply_grpc"
        /\ reqs[r].sent = Some(<<"x-caller", "x-test">>)
        /\ reqs[r].outcome = Some(Ok(<<"200", "x-caller", "x-test">>))
        /\ TargetOf(reqs[x]).proto = "http" /\ reqs[x].by = "apply_http"
        /\ TargetOf(reqs[x]).match = "m1"
        /\ reqs[x].sent = Some(<<"x-caller", "x-test", "x-late">>)

\* C17: the response timeout a key exposes to the timeout layer is the
\* key's request_timeout: none when it is None, the duration d when it is
\* Some(d); every pipeline is built with it and every request runs under it.
C17_ResponseTimeoutIsRequestTimeout ==
    /\ \A p \in Ps :
          /\ p.target.params.request_timeout = None => p.timeout = None
          /\ \A d \in {"10ms"} :
                p.target.params.request_timeout = Some(d) => p.timeout = Some(d)
    /\ \A r \in Rs :
          reqs[r].timer = TargetOf(reqs[r]).params.request_timeout

C17_Witness ==
    /\ \E p \in Ps : p.target.params.request_timeout = None /\ p.timeout = None
    /\ \E p \in Ps :
          p.target.params.request_timeout = Some("10ms") /\ p.timeout = Some("10ms")
    /\ \E r \in Rs : reqs[r].timer = Some("10ms")

\* Something went wrong for the request: a filter of its key fails, its
\* timeout fired, or the inner service answered with an error.
WentWrong(q) ==
    \/ FilterFailed(q)
    \/ q.ds \in {"dropped", "late"}
    \/ (q.ds = "done" /\ ~q.dsres[1].ok)

\* C18: nothing is retried and nothing is recovered: the inner service is
\* called at most once per request and the request ends at most once;
\* a request for which a filter failed, the timeout fired or the inner
\* service answered with an error ends with an error whose cause is that
\* failure, and only a response of the inner service ends a request with
\* success; what was sent and how the request ended never changes later.
C18_NoRetryNoRecovery ==
    /\ [](\A r \in Rs :
            LET q == reqs[r]
            IN /\ Times(q.steps, "call") <= 1
               /\ q.delivered <= 1
               /\ (Ended(q) /\ WentWrong(q)) =>
                     /\ Failed(q)
                     /\ Source(q.outcome[1].err) = Original(q)
               /\ (Ended(q) /\ q.outcome[1].ok) => (q.ds = "done" /\ q.dsres[1].ok)
               /\ (q.ds \in {"done", "dropped", "late"} \/ FilterFailed(q)) =>
                     ~(q.ds \in {"pending", "overdue"}))
    /\ [][\A r \in Rs :
            /\ reqs[r].sent # None => reqs'[r].sent = reqs[r].sent
            /\ reqs[r].dsres # None => reqs'[r].dsres = reqs[r].dsres
            /\ Ended(reqs[r]) => reqs'[r].outcome = reqs[r].outcome]_vars

C18_Witness ==
    \E x, y \in Rs :
        /\ reqs[x].ds = "late" /\ Failed(reqs[x])
        /\ Times(reqs[x].steps, "call") = 1
        /\ reqs[y].ds = "done" /\ ~reqs[y].dsres[1].ok /\ Failed(reqs[y])
        /\ Times(reqs[y].steps, "call") = 1

\* The process and its limits can both be read from /proc.
Readable == proc.myself /\ proc.limits

SoftLimit == proc.max_open_files.soft_limit

HardLimit == proc.max_open_files.hard_limit

\* C19: max_fds never returns an error.  With the process and its limits
\* readable it returns the soft limit when that is a value, otherwise the
\* hard limit when that is a value, otherwise none; when the process or
\* its limits cannot be read it returns none.
C19_MaxFdsIsNeverAnError ==
    fds # None =>
        /\ fds[1].ok
        /\ fds[1].err = <<>>
        /\ \A v \in 0..MaxLimit :
              (Readable /\ SoftLimit = Value(v)) => fds[1].resp = Some(v)
        /\ \A v \in 0..MaxLimit :
              (Readable /\ SoftLimit = Unlimited /\ HardLimit = Value(v))
                 => fds[1].resp = Some(v)
        /\ (Readable /\ SoftLimit = Unlimited /\ HardLimit = Unlimited)
              => fds[1].resp = None
        /\ ~Readable => fds[1].resp = None

C19_Witness ==
    /\ ~proc.myself
    /\ SoftLimit = Value(1)
    /\ HardLimit = Value(2)
    /\ fds = Some(Ok(None))

====
